---- MODULE Spec2Model ----
(***************************************************************************)
(* The timed debug session of client/cmd/debug.go: runForDuration drives   *)
(* the daemon through Status, GetLogLevel, Up, SetLogLevel, Down,          *)
(* SetNetworkMapPersistence, Up, two status snapshots around               *)
(* waitForDurationOrCancel, DebugBundle and the restoring calls.           *)
(* waitForDurationOrCancel is modelled with its two goroutines (the parent *)
(* select and the background reporter), the ticker channel and the context *)
(* cancellation.                                                           *)
(***************************************************************************)
EXTENDS Integers, Sequences, FiniteSets, TLC

\* ---------------------------------------------------------------- bounds
\* Largest duration argument, in time units.
MaxD == 2

\* ------------------------------------------------------ program constants
\* time.Second: the clock counts half seconds.
Second == 2

\* proto.LogLevel
LogLevel_INFO == 5
LogLevel_DEBUG == 6
LogLevel_TRACE == 7
\* time.Sleep arguments of runForDuration, in seconds
SleepAfterExtraUp == 10
SleepAfterDown == 1
SleepAfterUp == 3

StatusConnected == "Connected"
StatusConnecting == "Connecting"
StatusIdle == "Idle"

Statuses == {StatusConnected, StatusConnecting, StatusIdle}
Levels == {LogLevel_INFO, LogLevel_DEBUG, LogLevel_TRACE}

\* Outcome of one daemon call: OK, or the message of the gRPC status.
OK == "ok"
Msgs == {"unavailable"}
Outcomes == {OK} \cup Msgs
Canceled == "context canceled"
\* Upload failure reasons a DebugBundle response may carry ("" is none).
Reasons == {"", "upload refused"}

VARIABLES
    pc,                 \* position of runForDuration
    err,                \* the error runForDuration returned (NoErr for nil)
    connOpen,           \* the daemon connection of getClient is open
    connCloses,         \* number of conn.Close() calls
    stateWasDown,       \* local stateWasDown
    initialLogLevel,    \* local initialLogLevel.GetLevel()
    initialLevelTrace,  \* local initialLevelTrace
    statusOutput,       \* local statusOutput, a sequence of lines
    request,            \* local request (the DebugBundleRequest)
    resp,               \* local resp of DebugBundle
    trace,              \* every daemon call and snapshot/wait event, in order
    out,                \* lines printed with cmd.Println / cmd.Printf
    uploadBundleFlag,   \* flag --upload-bundle
    dStatus,            \* daemon: connectivity status
    dLogLevel,          \* daemon: log level
    dPersist,           \* daemon: network map persistence
    duration,           \* parsed duration argument
    now,                \* the clock
    ctxDone,            \* cmd.Context() is cancelled
    cancelEarly,        \* history: the context was cancelled before the duration elapsed
    cancelInWait,       \* history: the context was cancelled inside waitForDurationOrCancel
    daemon0,            \* history: the daemon's state when the session started
    tickerStart,        \* time of time.NewTicker (-1: no ticker)
    tickerStopped,      \* ticker.Stop() was called
    tickerC,            \* ticker.C: buffered channel of capacity 1 (tick times)
    startTime,          \* local startTime
    doneClosed,         \* channel done is closed
    ppc,                \* parent of waitForDurationOrCancel
    rpc,                \* background reporter goroutine
    rTick,              \* tick the reporter received
    rExit,              \* which return of the reporter was taken
    waitResult,         \* what waitForDurationOrCancel returned
    progress            \* "Remaining time" lines printed by the reporter

retVars == <<pc, err, connOpen, connCloses>>
localVars == <<stateWasDown, initialLogLevel, initialLevelTrace, statusOutput, request, resp>>
daemonVars == <<dStatus, dLogLevel, dPersist>>
waitVars == <<ctxDone, cancelEarly, cancelInWait, daemon0, tickerStart, tickerStopped, tickerC, startTime, doneClosed,
              ppc, rpc, rTick, rExit, waitResult, progress>>
vars == <<pc, err, connOpen, connCloses, stateWasDown, initialLogLevel,
          initialLevelTrace, statusOutput, request, resp, trace, out,
          uploadBundleFlag, dStatus, dLogLevel, dPersist, duration, now, ctxDone,
          cancelEarly, cancelInWait, daemon0, tickerStart, tickerStopped, tickerC, startTime, doneClosed, ppc, rpc,
          rTick, rExit, waitResult, progress>>

\* ---------------------------------------------------------------- values
NoErr == [text |-> "", msg |-> ""]
\* fmt.Errorf("<text>: %v", status.Convert(err).Message())
Errorf(text, m) == [text |-> text, msg |-> m]
\* ctx.Err() of a cancelled context
CtxErr == [text |-> "context canceled", msg |-> ""]

NoResp == [path |-> "", uploadedKey |-> "", uploadFailureReason |-> ""]
NoRequest == [status |-> <<>>, uploadURL |-> ""]

\* One entry of the trace: a daemon call (op, its argument, its outcome) or a
\* local event of the session (WaitStart, WaitEnd).
Entry(op, arg, r, text) ==
    [op |-> op, arg |-> arg, ok |-> (r = OK), msg |-> IF r = OK THEN "" ELSE r,
     ts |-> now, text |-> text]
Call(op, arg, r) == Entry(op, arg, r, <<>>)

\* One line of the status text: a header (label, RFC3339 timestamp, duration or
\* -1 for none) or a body (the words of the summary; <<>> is the empty string).
Header(label, ts, dur) == [label |-> label, ts |-> ts, dur |-> dur, text |-> <<>>]
Body(text) == [label |-> "", ts |-> -1, dur |-> -1, text |-> text]

Init ==
    /\ pc = "getClient"
    /\ err = NoErr
    /\ connOpen = FALSE
    /\ connCloses = 0
    /\ stateWasDown = FALSE
    /\ initialLogLevel = 0
    /\ initialLevelTrace = FALSE
    /\ statusOutput = <<>>
    /\ request = NoRequest
    /\ resp = NoResp
    /\ trace = <<>>
    /\ out = <<>>
    /\ uploadBundleFlag \in BOOLEAN
    /\ dStatus \in Statuses
    /\ dLogLevel \in Levels
    /\ dPersist \in BOOLEAN
    /\ duration \in 0..MaxD
    /\ now = 0
    /\ ctxDone = FALSE
    /\ cancelEarly = FALSE
    /\ cancelInWait = FALSE
    /\ daemon0 = [status |-> dStatus, level |-> dLogLevel, persist |-> dPersist]
    /\ tickerStart = -1
    /\ tickerStopped = FALSE
    /\ tickerC = <<>>
    /\ startTime = -1
    /\ doneClosed = FALSE
    /\ ppc = "idle"
    /\ rpc = "idle"
    /\ rTick = -1
    /\ rExit = "none"
    /\ waitResult = "none"
    /\ progress = <<>>

\* ----------------------------------------------------- runForDuration
Return_NoClose(e) ==
    /\ pc' = "done"
    /\ err' = e
    /\ UNCHANGED <<connOpen, connCloses>>

\* A return of runForDuration: the deferred conn.Close() runs.
Return(e) ==
    /\ pc' = "done"
    /\ err' = e
    /\ connOpen' = FALSE
    /\ connCloses' = connCloses + 1

Goto(p) ==
    /\ pc' = p
    /\ UNCHANGED <<err, connOpen, connCloses>>

\* Every call is made with cmd.Context(): once the context is cancelled the call
\* fails with the context's error.
CallOutcomes == IF ctxDone THEN {Canceled} ELSE Outcomes

\* getClient: on failure runForDuration returns before the defer is set up.
GetClient ==
    /\ pc = "getClient"
    /\ \E r \in CallOutcomes :
        IF r = OK
        THEN /\ pc' = "status"
             /\ connOpen' = TRUE
             /\ UNCHANGED <<err, connCloses>>
        ELSE /\ pc' = "done"
             /\ err' = Errorf("", r)
             /\ UNCHANGED <<connOpen, connCloses>>
    /\ UNCHANGED <<localVars, trace, out, uploadBundleFlag, daemonVars, duration, now, waitVars>>

FetchFailed_Continue(text, r) == Goto("extraUp")

\* A failed initial fetch: return fmt.Errorf(text, Message()).
FetchFailed(text, r) == Return(Errorf(text, r))

StateWasDown_OnlyConnected(st) == st # StatusConnected

\* stateWasDown := stat.Status != StatusConnected && stat.Status != StatusConnecting
StateWasDown(st) == st # StatusConnected /\ st # StatusConnecting

\* client.Status and the classification of the initial state.
FetchStatus ==
    /\ pc = "status"
    /\ \E r \in CallOutcomes :
        /\ trace' = Append(trace, Call("Status", 0, r))
        /\ IF r = OK
           THEN /\ stateWasDown' = StateWasDown(dStatus)
                /\ Goto("getLogLevel")
           ELSE /\ FetchFailed("failed to get status", r)
                /\ UNCHANGED stateWasDown
    /\ UNCHANGED <<initialLogLevel, initialLevelTrace, statusOutput, request, resp, out,
                   uploadBundleFlag, daemonVars, duration, now, waitVars>>

\* client.GetLogLevel
FetchLogLevel ==
    /\ pc = "getLogLevel"
    /\ \E r \in CallOutcomes :
        /\ trace' = Append(trace, Call("GetLogLevel", 0, r))
        /\ IF r = OK
           THEN /\ initialLogLevel' = dLogLevel
                /\ Goto("extraUp")
           ELSE /\ FetchFailed("failed to get log level", r)
                /\ UNCHANGED initialLogLevel
    /\ UNCHANGED <<stateWasDown, initialLevelTrace, statusOutput, request, resp, out,
                   uploadBundleFlag, daemonVars, duration, now, waitVars>>

OnError_NoMessage(text, r) == Return(Errorf(text, ""))

\* What a failed mutating call does: return fmt.Errorf(text, Message()).
OnError(text, r) == Return(Errorf(text, r))

\* The daemon's side of the calls (the daemon is a collaborator).
DaemonUp == StatusConnected
DaemonDown == StatusIdle

\* if stateWasDown { client.Up; "Netbird up"; time.Sleep(10s) }
ExtraUp ==
    /\ pc = "extraUp"
    /\ IF stateWasDown
       THEN \E r \in CallOutcomes :
              /\ trace' = Append(trace, Call("Up", 0, r))
              /\ IF r = OK
                 THEN /\ dStatus' = DaemonUp
                      /\ out' = Append(out, "Netbird up")
                      /\ now' = now + SleepAfterExtraUp * Second
                      /\ Goto("elevate")
                 ELSE /\ OnError("failed to up", r)
                      /\ UNCHANGED <<dStatus, out, now>>
       ELSE /\ Goto("elevate")
            /\ UNCHANGED <<trace, dStatus, out, now>>
    /\ UNCHANGED <<localVars, uploadBundleFlag, dLogLevel, dPersist, duration, waitVars>>

InitialLevelTrace_Strict(level) == level > LogLevel_TRACE

\* initialLogLevel.GetLevel() >= proto.LogLevel_TRACE
InitialLevelTrace(level) == level >= LogLevel_TRACE

\* initialLevelTrace := ...; if !initialLevelTrace { client.SetLogLevel(TRACE) }
ElevateLogLevel ==
    /\ pc = "elevate"
    /\ initialLevelTrace' = InitialLevelTrace(initialLogLevel)
    /\ IF ~initialLevelTrace'
       THEN \E r \in CallOutcomes :
              /\ trace' = Append(trace, Call("SetLogLevel", LogLevel_TRACE, r))
              /\ IF r = OK
                 THEN /\ dLogLevel' = LogLevel_TRACE
                      /\ out' = Append(out, "Log level set to trace.")
                      /\ Goto("down")
                 ELSE /\ OnError("failed to set log level to TRACE", r)
                      /\ UNCHANGED <<dLogLevel, out>>
       ELSE /\ Goto("down")
            /\ UNCHANGED <<trace, dLogLevel, out>>
    /\ UNCHANGED <<stateWasDown, initialLogLevel, statusOutput, request, resp,
                   uploadBundleFlag, dStatus, dPersist, duration, now, waitVars>>

DownFailed_Continue(r) == Goto("persistence")

\* if _, err := client.Down(...); err != nil { return ... }
DownFailed(r) == OnError("failed to down", r)

\* client.Down; "Netbird down"; time.Sleep(1s)
ForcedDown ==
    /\ pc = "down"
    /\ \E r \in CallOutcomes :
        /\ trace' = Append(trace, Call("Down", 0, r))
        /\ IF r = OK
           THEN /\ dStatus' = DaemonDown
                /\ out' = Append(out, "Netbird down")
                /\ now' = now + SleepAfterDown * Second
                /\ Goto("persistence")
           ELSE /\ DownFailed(r)
                /\ UNCHANGED <<dStatus, out, now>>
    /\ UNCHANGED <<localVars, uploadBundleFlag, dLogLevel, dPersist, duration, waitVars>>

PersistenceFailed_Continue(r) == Goto("up")

\* if _, err := client.SetNetworkMapPersistence(...); err != nil { return ... }
PersistenceFailed(r) == OnError("failed to enable network map persistence", r)

PersistenceEnabled_Off == FALSE

\* &proto.SetNetworkMapPersistenceRequest{Enabled: true}
PersistenceEnabled == TRUE

\* client.SetNetworkMapPersistence(Enabled: true)
EnablePersistence ==
    /\ pc = "persistence"
    /\ \E r \in CallOutcomes :
        /\ trace' = Append(trace, Call("SetNetworkMapPersistence",
                                      IF PersistenceEnabled THEN 1 ELSE 0, r))
        /\ IF r = OK
           THEN /\ dPersist' = PersistenceEnabled
                /\ Goto("up")
           ELSE /\ PersistenceFailed(r)
                /\ UNCHANGED dPersist
    /\ UNCHANGED <<localVars, out, uploadBundleFlag, dStatus, dLogLevel, duration, now, waitVars>>

\* client.Up; "Netbird up"; time.Sleep(3s)
ReconnectUp ==
    /\ pc = "up"
    /\ \E r \in CallOutcomes :
        /\ trace' = Append(trace, Call("Up", 0, r))
        /\ IF r = OK
           THEN /\ dStatus' = DaemonUp
                /\ out' = Append(out, "Netbird up")
                /\ now' = now + SleepAfterUp * Second
                /\ Goto("postUp")
           ELSE /\ OnError("failed to up", r)
                /\ UNCHANGED <<dStatus, out, now>>
    /\ UNCHANGED <<localVars, uploadBundleFlag, dLogLevel, dPersist, duration, waitVars>>

\* nbstatus.ParseToFullDetailSummary(ConvertToStatusOutputOverview(resp)): the
\* words of the summary of a daemon in status st.
Summary(st) == <<"Daemon status", st>>

getStatusOutput_NoFallback(r) == Summary(dStatus)

\* getStatusOutput: the summary, or the empty string when getStatus fails.
getStatusOutput(r) == IF r = OK THEN Summary(dStatus) ELSE <<>>

\* fmt.Sprintf("%s\n%s", headerPostUp, body)
SprintfPostUp(header, body) == <<header, Body(body)>>

\* headerPostUp; statusOutput := Sprintf("%s\n%s", headerPostUp, getStatusOutput())
CapturePostUp ==
    /\ pc = "postUp"
    /\ \E r \in CallOutcomes :
        /\ trace' = Append(trace, Entry("post-up", 0, r, getStatusOutput(r)))
        /\ statusOutput' = SprintfPostUp(Header("post-up", now, -1), getStatusOutput(r))
    /\ Goto("wait")
    /\ UNCHANGED <<stateWasDown, initialLogLevel, initialLevelTrace, request, resp, out,
                   uploadBundleFlag, daemonVars, duration, now, waitVars>>

\* ------------------------------------------------ waitForDurationOrCancel
sessVars == <<localVars, out, uploadBundleFlag, daemonVars, duration>>

\* ticker := time.NewTicker(1 * time.Second); defer ticker.Stop()
NewTicker ==
    /\ pc = "wait"
    /\ ppc = "idle"
    /\ tickerStart' = now
    /\ ppc' = "ticker"
    /\ trace' = Append(trace, Call("WaitStart", 0, OK))
    /\ UNCHANGED <<retVars, sessVars, now, ctxDone, cancelEarly, cancelInWait, daemon0, tickerStopped, tickerC, startTime,
                   doneClosed, rpc, rTick, rExit, waitResult, progress>>

\* startTime := time.Now(); done := make(chan struct{}); go func() {...}()
StartReporter ==
    /\ ppc = "ticker"
    /\ startTime' = now
    /\ ppc' = "select"
    /\ rpc' = "select"
    /\ UNCHANGED <<retVars, sessVars, trace, now, ctxDone, cancelEarly, cancelInWait, daemon0, tickerStart, tickerStopped,
                   tickerC, doneClosed, rTick, rExit, waitResult, progress>>

\* The ticker fires at every whole second after its creation until it is stopped.
TickFires(t) == ~tickerStopped /\ tickerStart >= 0 /\ (t - tickerStart) % Second = 0

\* The clock stops advancing MaxWait units after startTime: by then a tick has
\* fired at which the duration had elapsed.
MaxWait == duration + Second
\* time.Now() follows time.NewTicker by less than one tick interval.
MaxSkew == Second - 1

\* One time unit passes. A tick is handed to the reporter parked in its select,
\* else buffered in ticker.C, else dropped (the channel has capacity 1).
AdvanceTime ==
    /\ tickerStart >= 0
    /\ rpc # "exited" \/ ppc # "returned"
    /\ IF ppc = "ticker" THEN now - tickerStart < MaxSkew ELSE now - startTime < MaxWait
    /\ now' = now + 1
    /\ IF TickFires(now')
       THEN IF rpc = "parked"
            THEN /\ rpc' = "gotTick"
                 /\ rTick' = now'
                 /\ UNCHANGED tickerC
            ELSE /\ tickerC' = IF tickerC = <<>> THEN <<now'>> ELSE tickerC
                 /\ UNCHANGED <<rpc, rTick>>
       ELSE UNCHANGED <<tickerC, rpc, rTick>>
    /\ UNCHANGED <<retVars, sessVars, trace, ctxDone, cancelEarly, cancelInWait, daemon0, tickerStart, tickerStopped,
                   startTime, doneClosed, ppc, rExit, waitResult, progress>>

\* The context of the command is cancelled: ctx.Done() is closed, which wakes
\* every goroutine parked in a select on it.
Cancel ==
    /\ ~ctxDone
    /\ pc # "done"
    /\ ctxDone' = TRUE
    /\ cancelEarly' = IF startTime >= 0 THEN now - startTime < duration ELSE duration > 0
    /\ cancelInWait' = (pc = "wait" /\ ppc # "idle" /\ ~doneClosed)
    /\ ppc' = IF ppc = "parked" THEN "gotCancel" ELSE ppc
    /\ rpc' = IF rpc = "parked" THEN "gotCancel" ELSE rpc
    /\ UNCHANGED <<retVars, sessVars, trace, now, daemon0, tickerStart, tickerStopped,
                   tickerC, startTime, doneClosed, rTick, rExit, waitResult, progress>>

ReporterReturn_NoClose(why) ==
    /\ rpc' = "exited"
    /\ rExit' = why
    /\ UNCHANGED <<doneClosed, ppc>>

\* The reporter returns: defer close(done) wakes the parent parked on done.
ReporterReturn(why) ==
    /\ rpc' = "exited"
    /\ rExit' = why
    /\ doneClosed' = TRUE
    /\ ppc' = IF ppc = "parked" THEN "gotDone" ELSE ppc

\* The reporter evaluates its select: one of the ready cases is chosen; with none
\* ready the goroutine parks.
ReporterSelect ==
    /\ rpc = "select"
    /\ \/ /\ ctxDone
          /\ ReporterReturn("cancel")
          /\ UNCHANGED <<tickerC, rTick>>
       \/ /\ tickerC # <<>>
          /\ rTick' = Head(tickerC)
          /\ tickerC' = <<>>
          /\ rpc' = "gotTick"
          /\ UNCHANGED <<rExit, doneClosed, ppc>>
       \/ /\ ~ctxDone
          /\ tickerC = <<>>
          /\ rpc' = "parked"
          /\ UNCHANGED <<tickerC, rTick, rExit, doneClosed, ppc>>
    /\ UNCHANGED <<retVars, sessVars, trace, now, ctxDone, cancelEarly, cancelInWait, daemon0, tickerStart, tickerStopped,
                   startTime, waitResult, progress>>

\* The parked reporter was woken by the cancellation: case <-ctx.Done(): return
ReporterCancelled ==
    /\ rpc = "gotCancel"
    /\ ReporterReturn("cancel")
    /\ UNCHANGED <<retVars, sessVars, trace, now, ctxDone, cancelEarly, cancelInWait, daemon0, tickerStart, tickerStopped,
                   tickerC, startTime, rTick, waitResult, progress>>

\* d.Round(time.Second): halfway values round away from zero (d >= 0 here).
RoundSecond(d) ==
    LET r == d % Second
    IN  IF r + r < Second THEN d - r ELSE d + Second - r

\* formatDuration: hours, minutes and seconds of the rounded duration.
formatDuration(d) ==
    LET rd == RoundSecond(d)
        Minute == 60 * Second
        Hour == 60 * Minute
    IN  <<rd \div Hour, (rd % Hour) \div Minute, (rd % Minute) \div Second>>

\* time.Since(startTime)
Elapsed == now - startTime

DurationExhausted_Strict(elapsed, d) == elapsed > d
DurationExhausted_Late(elapsed, d) == elapsed >= d + Second

\* elapsed >= duration
DurationExhausted(elapsed, d) == elapsed >= d

\* case <-ticker.C: elapsed := time.Since(startTime); return when the duration
\* is exhausted, else print the remaining time.
ReporterTick ==
    /\ rpc = "gotTick"
    /\ IF DurationExhausted(Elapsed, duration)
       THEN /\ ReporterReturn("duration")
            /\ UNCHANGED progress
       ELSE /\ progress' = Append(progress,
                                  [elapsed |-> Elapsed,
                                   remaining |-> duration - Elapsed,
                                   text |-> formatDuration(duration - Elapsed),
                                   afterCancel |-> ctxDone])
            /\ rpc' = "select"
            /\ UNCHANGED <<rExit, doneClosed, ppc>>
    /\ UNCHANGED <<retVars, sessVars, trace, now, ctxDone, cancelEarly, cancelInWait, daemon0, tickerStart, tickerStopped,
                   tickerC, startTime, rTick, waitResult>>

\* waitForDurationOrCancel returns res (the deferred ticker.Stop() runs) and
\* runForDuration goes on: it returns waitErr, or prints and captures pre-down.
ParentReturn(res) ==
    /\ ppc' = "returned"
    /\ waitResult' = res
    /\ tickerStopped' = TRUE
    /\ trace' = Append(trace, Call("WaitEnd", 0, IF res = "completed" THEN OK ELSE "cancelled"))
    /\ IF res = "cancelled"
       THEN /\ Return(CtxErr)
            /\ UNCHANGED out
       ELSE /\ Goto("preDown")
            /\ out' = out \o <<"Duration completed", "Creating debug bundle...">>

\* The parent evaluates its select on ctx.Done() and done.
ParentSelect ==
    /\ ppc = "select"
    /\ \/ /\ ctxDone
          /\ ParentReturn("cancelled")
       \/ /\ doneClosed
          /\ ParentReturn("completed")
       \/ /\ ~ctxDone
          /\ ~doneClosed
          /\ ppc' = "parked"
          /\ UNCHANGED <<retVars, trace, out, tickerStopped, waitResult>>
    /\ UNCHANGED <<localVars, uploadBundleFlag, daemonVars, duration, now, ctxDone,
                   cancelEarly, cancelInWait, daemon0, tickerStart, tickerC, startTime, doneClosed, rpc, rTick, rExit, progress>>

\* The parked parent was woken by the channel that was closed first.
ParentWoken ==
    /\ ppc \in {"gotCancel", "gotDone"}
    /\ ParentReturn(IF ppc = "gotCancel" THEN "cancelled" ELSE "completed")
    /\ UNCHANGED <<localVars, uploadBundleFlag, daemonVars, duration, now, ctxDone,
                   cancelEarly, cancelInWait, daemon0, tickerStart, tickerC, startTime, doneClosed, rpc, rTick, rExit, progress>>

\* ------------------------------------------- runForDuration, after the wait
SprintfPreDown_Overwrite(prev, header, body) == <<header, Body(body)>>

\* fmt.Sprintf("%s\n%s\n%s", statusOutput, headerPreDown, body)
SprintfPreDown(prev, header, body) == prev \o <<header, Body(body)>>

\* if uploadBundleFlag { request.UploadURL = uploadBundleURLFlag }
UploadURL(flag) == IF flag THEN "uploadBundleURLFlag" ELSE ""

\* headerPreDown; statusOutput = Sprintf(...); request := &DebugBundleRequest{...}
CapturePreDown ==
    /\ pc = "preDown"
    /\ \E r \in CallOutcomes :
        /\ trace' = Append(trace, Entry("pre-down", 0, r, getStatusOutput(r)))
        /\ statusOutput' = SprintfPreDown(statusOutput, Header("pre-down", now, duration),
                                          getStatusOutput(r))
    /\ request' = [status |-> statusOutput', uploadURL |-> UploadURL(uploadBundleFlag)]
    /\ Goto("bundle")
    /\ UNCHANGED <<stateWasDown, initialLogLevel, initialLevelTrace, resp, out,
                   uploadBundleFlag, daemonVars, duration, now, waitVars>>

\* resp, err := client.DebugBundle(ctx, request)
SendBundle ==
    /\ pc = "bundle"
    /\ \E r \in CallOutcomes :
        /\ trace' = Append(trace, Entry("DebugBundle", 0, r, <<>>))
        /\ IF r = OK
           THEN /\ \E reason \in Reasons :
                     resp' = [path |-> "bundle.zip",
                              uploadedKey |-> IF request.uploadURL # "" /\ reason = ""
                                              THEN "key" ELSE "",
                              uploadFailureReason |-> reason]
                /\ Goto("restoreDown")
           ELSE /\ OnError("failed to bundle debug", r)
                /\ UNCHANGED resp
    /\ UNCHANGED <<stateWasDown, initialLogLevel, initialLevelTrace, statusOutput, request,
                   out, uploadBundleFlag, daemonVars, duration, now, waitVars>>

RestoreConnectivity_Always == TRUE

\* if stateWasDown {
RestoreConnectivity == stateWasDown

\* if stateWasDown { client.Down; "Netbird down" }
RestoreDown ==
    /\ pc = "restoreDown"
    /\ IF RestoreConnectivity
       THEN \E r \in CallOutcomes :
              /\ trace' = Append(trace, Call("Down", 0, r))
              /\ IF r = OK
                 THEN /\ dStatus' = DaemonDown
                      /\ out' = Append(out, "Netbird down")
                      /\ Goto("restoreLevel")
                 ELSE /\ OnError("failed to down", r)
                      /\ UNCHANGED <<dStatus, out>>
       ELSE /\ Goto("restoreLevel")
            /\ UNCHANGED <<trace, dStatus, out>>
    /\ UNCHANGED <<localVars, uploadBundleFlag, dLogLevel, dPersist, duration, now, waitVars>>

RestoredLevel_Info == LogLevel_INFO

\* &proto.SetLogLevelRequest{Level: initialLogLevel.GetLevel()}
RestoredLevel == initialLogLevel

\* if !initialLevelTrace { client.SetLogLevel(initialLogLevel.GetLevel()) }
RestoreLogLevel ==
    /\ pc = "restoreLevel"
    /\ IF ~initialLevelTrace
       THEN \E r \in CallOutcomes :
              /\ trace' = Append(trace, Call("SetLogLevel", RestoredLevel, r))
              /\ IF r = OK
                 THEN /\ dLogLevel' = RestoredLevel
                      /\ out' = Append(out, "Log level restored")
                      /\ Goto("report")
                 ELSE /\ OnError("failed to restore log level", r)
                      /\ UNCHANGED <<dLogLevel, out>>
       ELSE /\ Goto("report")
            /\ UNCHANGED <<trace, dLogLevel, out>>
    /\ UNCHANGED <<localVars, uploadBundleFlag, dStatus, dPersist, duration, now, waitVars>>

UploadFailed_OnlyRequested(reason) == uploadBundleFlag /\ reason # ""

\* if resp.GetUploadFailureReason() != ""
UploadFailed(reason) == reason # ""

\* "Local file:"; the upload failure reason; "Upload file key:"; return nil
ReportResult ==
    /\ pc = "report"
    /\ IF UploadFailed(resp.uploadFailureReason)
       THEN /\ out' = Append(out, "Local file")
            /\ Return(Errorf("upload failed", resp.uploadFailureReason))
       ELSE /\ out' = IF uploadBundleFlag
                      THEN out \o <<"Local file", "Upload file key">>
                      ELSE Append(out, "Local file")
            /\ Return(NoErr)
    /\ UNCHANGED <<localVars, trace, uploadBundleFlag, daemonVars, duration, now, waitVars>>

Next ==
    \/ GetClient
    \/ FetchStatus
    \/ FetchLogLevel
    \/ ExtraUp
    \/ ElevateLogLevel
    \/ ForcedDown
    \/ EnablePersistence
    \/ ReconnectUp
    \/ CapturePostUp
    \/ NewTicker
    \/ StartReporter
    \/ AdvanceTime
    \/ Cancel
    \/ ReporterSelect
    \/ ReporterCancelled
    \/ ReporterTick
    \/ ParentSelect
    \/ ParentWoken
    \/ CapturePreDown
    \/ SendBundle
    \/ RestoreDown
    \/ RestoreLogLevel
    \/ ReportResult

Spec == Init /\ [][Next]_vars

\* ----------------------------------------------------------- the trace
\* Positions of the trace that hold a call of op.
Ops(op) == {i \in 1..Len(trace) : trace[i].op = op}
Mutating == {"Up", "Down", "SetLogLevel", "SetNetworkMapPersistence"}
BundleIdx == Ops("DebugBundle")
PersistIdx == Ops("SetNetworkMapPersistence")
\* The forced Down of the main sequence and the restoring Down of the end.
ForcedDowns == {i \in Ops("Down") : \A b \in BundleIdx : i < b}
RestoringDowns == {i \in Ops("Down") : \E b \in BundleIdx : b < i}
\* The extra Up of a daemon that was down, and the reconnecting Up.
ExtraUps == {i \in Ops("Up") : \A d \in Ops("Down") : i < d}
ReconnectUps == {i \in Ops("Up") : \E d \in Ops("Down") : d < i}
\* The elevating SetLogLevel and the restoring one.
Elevations == {i \in Ops("SetLogLevel") : \A d \in Ops("Down") : i < d}
Restorations == {i \in Ops("SetLogLevel") : \E b \in BundleIdx : b < i}
StatusFetched == Len(trace) >= 1 /\ trace[1].op = "Status" /\ trace[1].ok
LevelFetched == Len(trace) >= 2 /\ trace[2].op = "GetLogLevel" /\ trace[2].ok
BundleSucceeded == \E b \in BundleIdx : trace[b].ok
DaemonWasDown == daemon0.status \notin {StatusConnected, StatusConnecting}
Count(flag) == IF flag THEN 1 ELSE 0

\* ---------------------------------------------------------------- claims

\* C1: the initial state is classified "was down" exactly when the daemon's status
\* is neither connected nor connecting. A daemon that was connected or connecting
\* gets no Up before the forced Down; a daemon that was down gets exactly one Up
\* before the forced Down, and once the bundle request has succeeded the next
\* call is the one restoring Down that corresponds to it (no restoring Down for
\* a daemon that was not down).
C1_WasDownUpAndRestore ==
    /\ StatusFetched => (stateWasDown <=> DaemonWasDown)
    /\ Cardinality(ExtraUps) <= Count(StatusFetched /\ DaemonWasDown)
    /\ ForcedDowns # {} => Cardinality(ExtraUps) = Count(DaemonWasDown)
    /\ \A i \in ExtraUps : i = 3
    /\ Cardinality(RestoringDowns) <= Count(DaemonWasDown)
    /\ \A b \in BundleIdx :
          /\ trace[b].ok /\ pc # "restoreDown" =>
                Cardinality(RestoringDowns) = Count(DaemonWasDown)
          /\ \A i \in RestoringDowns : i = b + 1 /\ trace[b].ok

C1_Witness ==
    /\ pc = "done"
    /\ err = NoErr
    /\ DaemonWasDown
    /\ Cardinality(ExtraUps) = 1
    /\ Cardinality(RestoringDowns) = 1

\* C2: when the daemon reported a log level that is already trace, the session
\* issues no SetLogLevel call at all, in any state of any path. When it reported
\* a level below trace, the session issues at most one elevating call, it is
\* SetLogLevel(trace), and it has been issued once the forced Down is issued.
C2_NoSetLogLevelAtTrace ==
    /\ ~LevelFetched => Ops("SetLogLevel") = {}
    /\ LevelFetched /\ daemon0.level >= LogLevel_TRACE => Ops("SetLogLevel") = {}
    /\ LevelFetched /\ daemon0.level < LogLevel_TRACE =>
          /\ Cardinality(Elevations) <= 1
          /\ \A i \in Elevations : trace[i].arg = LogLevel_TRACE
          /\ ForcedDowns # {} => Cardinality(Elevations) = 1

C2_Witness ==
    /\ pc = "done"
    /\ err = NoErr
    /\ daemon0.level = LogLevel_TRACE
    /\ BundleSucceeded

\* C3: the forced Down, SetNetworkMapPersistence(true) and the reconnecting Up
\* occur in this order: persistence is enabled (once) right after the forced Down
\* succeeded, the reconnecting Up is issued (once) right after the enabling
\* succeeded, and no enabling follows the reconnecting Up.
C3_DownPersistenceUpOrder ==
    /\ Cardinality(ForcedDowns) <= 1
    /\ Cardinality(PersistIdx) <= 1
    /\ Cardinality(ReconnectUps) <= 1
    /\ \A p \in PersistIdx :
          /\ trace[p].arg = 1
          /\ p - 1 \in ForcedDowns
          /\ trace[p - 1].ok
    /\ \A u \in ReconnectUps :
          /\ u - 1 \in PersistIdx
          /\ trace[u - 1].ok
          /\ \A p \in PersistIdx : p < u

C3_Witness ==
    /\ waitResult = "completed"
    /\ ReconnectUps # {}
    /\ \A u \in ReconnectUps : trace[u].ok

\* C4: when SetNetworkMapPersistence fails the session has ended with the error
\* of that call, the failed call is the last entry of the trace (no reconnecting
\* Up, no wait, no snapshot, no bundle request), and the connection is closed.
C4_PersistenceFailureAborts ==
    \A p \in PersistIdx :
        ~trace[p].ok =>
            /\ p = Len(trace)
            /\ pc = "done"
            /\ err = Errorf("failed to enable network map persistence", trace[p].msg)
            /\ ReconnectUps = {}
            /\ Ops("WaitStart") = {} /\ ppc = "idle" /\ rpc = "idle"
            /\ Ops("post-up") = {} /\ Ops("pre-down") = {} /\ statusOutput = <<>>
            /\ BundleIdx = {} /\ request = NoRequest
            /\ ~connOpen
            /\ connCloses = 1

C4_Witness == \E p \in PersistIdx : ~trace[p].ok /\ trace[p].msg = "unavailable"

\* C5 (as claimed): a wait whose context was cancelled before the duration had
\* elapsed never returns "completed".
C5_CancelledNeverCompleted == cancelEarly => waitResult # "completed"

\* C6 (as claimed): no "Remaining time" line is printed once the context has
\* been cancelled.
C6_NoProgressAfterCancel == \A i \in 1..Len(progress) : ~progress[i].afterCancel

\* C7: the waiter terminates. The reporter returns on the first tick it handles
\* with the duration elapsed (every line it printed before had time remaining),
\* and that tick fired no later than one tick interval after the duration elapsed;
\* the parent returns "cancelled" only if the context was cancelled, "completed"
\* only after the reporter returned; and with ticks arriving and both goroutines
\* scheduled, a wait that has started always returns.
C7_WaiterTerminates ==
    /\ [](rExit = "duration" =>
            /\ now - startTime >= duration
            /\ rTick - startTime <= duration + Second)
    /\ [](\A i \in 1..Len(progress) : progress[i].remaining > 0)
    /\ [](waitResult = "cancelled" => ctxDone)
    /\ [](waitResult = "completed" => rExit = "duration" \/ (rExit = "cancel" /\ ctxDone))
    /\ (ppc = "ticker") ~> (ppc = "returned")

C7_Witness ==
    /\ waitResult = "completed"
    /\ ~ctxDone
    /\ rExit = "duration"
    /\ Len(progress) > 0

\* C8: a session that sends a bundle request has captured exactly two snapshots,
\* post-up after the reconnecting Up and before the wait starts, pre-down after
\* the wait returned "completed", and the status text of the request is the
\* post-up header and body followed by the pre-down header and body.
C8_TwoSnapshotsInOrder ==
    /\ Cardinality(Ops("post-up")) <= 1
    /\ Cardinality(Ops("pre-down")) <= 1
    /\ \A b \in BundleIdx :
         \E p \in Ops("post-up"), q \in Ops("pre-down"), u \in ReconnectUps,
            ws \in Ops("WaitStart"), we \in Ops("WaitEnd") :
            /\ trace[u].ok
            /\ u < p /\ p < ws /\ ws < we /\ we < q /\ q < b
            /\ trace[we].ok
            /\ request.status = << Header("post-up", trace[p].ts, -1),
                                   Body(trace[p].text),
                                   Header("pre-down", trace[q].ts, duration),
                                   Body(trace[q].text) >>

C8_Witness ==
    /\ BundleSucceeded
    /\ Len(request.status) = 4
    /\ request.status[2].text # <<>>
    /\ request.status[4].text = <<>>

\* The calls of a session in which nothing fails, for the daemon's initial state.
OpsOf(tr) == [i \in 1..Len(tr) |-> <<tr[i].op, tr[i].arg>>]
ExpectedCalls ==
    << <<"Status", 0>>, <<"GetLogLevel", 0>> >>
    \o (IF DaemonWasDown THEN << <<"Up", 0>> >> ELSE <<>>)
    \o (IF daemon0.level < LogLevel_TRACE
        THEN << <<"SetLogLevel", LogLevel_TRACE>> >> ELSE <<>>)
    \o << <<"Down", 0>>, <<"SetNetworkMapPersistence", 1>>, <<"Up", 0>>,
          <<"post-up", 0>>, <<"WaitStart", 0>>, <<"WaitEnd", 0>>,
          <<"pre-down", 0>>, <<"DebugBundle", 0>> >>
    \o (IF DaemonWasDown THEN << <<"Down", 0>> >> ELSE <<>>)
    \o (IF daemon0.level < LogLevel_TRACE
        THEN << <<"SetLogLevel", daemon0.level>> >> ELSE <<>>)
AllOk == \A i \in 1..Len(trace) : trace[i].ok

\* C9: as long as no call has failed and the wait was not cancelled, the calls
\* issued so far are the beginning of Status, GetLogLevel, [Up], [SetLogLevel(trace)],
\* Down, SetNetworkMapPersistence(true), Up, post-up snapshot, wait, pre-down
\* snapshot, bundle request, [Down], [SetLogLevel(initial level)], and a session
\* that ended has issued all of them, each once.
C9_HappyPathOrder ==
    AllOk =>
        /\ Len(trace) <= Len(ExpectedCalls)
        /\ \A i \in 1..Len(trace) : OpsOf(trace)[i] = ExpectedCalls[i]
        /\ pc = "done" /\ connCloses > 0 => Len(trace) = Len(ExpectedCalls)

C9_Witness ==
    /\ pc = "done"
    /\ AllOk
    /\ ~ctxDone
    /\ daemon0.status = StatusConnected
    /\ daemon0.level = LogLevel_INFO
    /\ Len(trace) = 12
    /\ OpsOf(trace)[3] = <<"SetLogLevel", LogLevel_TRACE>>
    /\ OpsOf(trace)[12] = <<"SetLogLevel", LogLevel_INFO>>

\* C10: when a mutating call (Up, Down, SetLogLevel, SetNetworkMapPersistence)
\* has failed, it is the last entry of the trace (no call follows: no retry, no
\* rollback), the session has ended, and its error carries the daemon's message.
C10_MutatingFailureAborts ==
    \A i \in 1..Len(trace) :
        trace[i].op \in Mutating /\ ~trace[i].ok =>
            /\ i = Len(trace)
            /\ pc = "done"
            /\ err.text # ""
            /\ err.msg = trace[i].msg
            /\ ~connOpen

C10_Witness == \E i \in Restorations : ~trace[i].ok /\ err.msg = "unavailable"

\* C11 (as claimed): when the context is cancelled inside waitForDurationOrCancel,
\* before the reporter has signalled completion, the session ends with the
\* cancellation error as soon as the waiter returns and nothing follows the wait:
\* no pre-down snapshot, no bundle request, no restoring Down or SetLogLevel.
C11_CancelledWaitAborts ==
    cancelInWait /\ ppc = "returned" =>
        /\ pc = "done"
        /\ err = CtxErr
        /\ trace[Len(trace)].op = "WaitEnd"
        /\ Ops("pre-down") = {} /\ BundleIdx = {}
        /\ RestoringDowns = {} /\ Restorations = {}

\* The lines printed so far include l.
Printed(l) == \E j \in 1..Len(out) : out[j] = l

\* C12 (as claimed): when the restoring Down or the restoring SetLogLevel fails
\* after a successful bundle request, the session ends with that error and the
\* bundle's local path has still been printed.
C12_RestorationFailureKeepsBundle ==
    \A i \in RestoringDowns \cup Restorations :
        ~trace[i].ok =>
            /\ pc = "done"
            /\ err.text \in {"failed to down", "failed to restore log level"}
            /\ BundleSucceeded
            /\ Printed("Local file")

\* C13: the connection of a session is closed exactly once on every exit path.
\* It is open from the successful getClient until runForDuration returns, no
\* close happens before the return, and a session that has returned after
\* acquiring the connection (it issued its first call) has closed it exactly
\* once, whatever the error it returned.
C13_ConnClosedOnce ==
    /\ connCloses <= 1
    /\ connOpen <=> (pc \notin {"getClient", "done"})
    /\ pc # "done" => connCloses = 0
    /\ pc = "done" => connCloses = Count(trace # <<>>)
    /\ pc = "done" /\ trace = <<>> => err.msg # ""

C13_Witness ==
    /\ pc = "done"
    /\ waitResult = "cancelled"
    /\ err = CtxErr
    /\ connCloses = 1
    /\ ~connOpen

\* C14: when the initial Status fetch or the initial GetLogLevel fetch has failed,
\* the session has ended with the error of that fetch, the failed fetch is its
\* last call (no Up, Down, SetLogLevel, SetNetworkMapPersistence, no bundle
\* request), and the daemon's state is what it was when the session started.
C14_FetchFailureAborts ==
    \A i \in Ops("Status") \cup Ops("GetLogLevel") :
        ~trace[i].ok =>
            /\ i = Len(trace)
            /\ pc = "done"
            /\ err = Errorf(IF trace[i].op = "Status" THEN "failed to get status"
                            ELSE "failed to get log level", trace[i].msg)
            /\ \A j \in 1..Len(trace) : trace[j].op \notin Mutating
            /\ BundleIdx = {}
            /\ dStatus = daemon0.status
            /\ dLogLevel = daemon0.level
            /\ dPersist = daemon0.persist

C14_Witness ==
    /\ Len(trace) = 2
    /\ trace[1].ok
    /\ trace[2].op = "GetLogLevel"
    /\ ~trace[2].ok
    /\ pc = "done"

Snapshots == Ops("post-up") \cup Ops("pre-down")
AllOkButSnapshots == \A i \in 1..Len(trace) : trace[i].ok \/ i \in Snapshots

\* C15: a failed status fetch of a snapshot does not end the session. The body
\* of a failed snapshot is the empty string (that of a successful one is the
\* summary), the body goes into the status text, the step after a snapshot is
\* the same whether its fetch failed or not (the wait after post-up, the bundle
\* request after pre-down), and a session in which nothing but snapshot fetches
\* failed issues the same calls as one in which nothing failed.
C15_SnapshotFailureTolerated ==
    /\ \A i \in Snapshots : trace[i].ok <=> trace[i].text # <<>>
    /\ \A p \in Ops("post-up") :
          /\ Len(statusOutput) >= 2 /\ statusOutput[2] = Body(trace[p].text)
          /\ p = Len(trace) => pc = "wait" /\ err = NoErr /\ connOpen
    /\ \A q \in Ops("pre-down") :
          /\ Len(request.status) = 4 /\ request.status[4] = Body(trace[q].text)
          /\ q = Len(trace) => pc = "bundle" /\ err = NoErr /\ connOpen
    /\ AllOkButSnapshots =>
          /\ Len(trace) <= Len(ExpectedCalls)
          /\ \A i \in 1..Len(trace) : OpsOf(trace)[i] = ExpectedCalls[i]
          /\ pc = "done" /\ connCloses > 0 => Len(trace) = Len(ExpectedCalls)

C15_Witness ==
    /\ pc = "done"
    /\ err = NoErr
    /\ \A i \in Snapshots : ~trace[i].ok
    /\ Cardinality(Snapshots) = 2
    /\ request.status[2] = Body(<<>>) /\ request.status[4] = Body(<<>>)
    /\ BundleSucceeded
    /\ \E i \in Restorations : trace[i].ok

\* C16: a session whose bundle response carries an upload failure reason ends
\* with an error, with or without --upload-bundle (the error is "upload failed"
\* with the reason when the report step is reached); the upload key is printed
\* only with --upload-bundle and no failure reason, and is printed by every such
\* session that ends without error; the request carries the upload URL exactly
\* when --upload-bundle is set.
C16_UploadOutcome ==
    /\ pc = "done" /\ BundleSucceeded /\ resp.uploadFailureReason # "" =>
          /\ err # NoErr
          /\ Printed("Local file") =>
                err = Errorf("upload failed", resp.uploadFailureReason)
    /\ Printed("Upload file key") =>
          /\ uploadBundleFlag
          /\ resp.uploadFailureReason = ""
          /\ pc = "done" /\ err = NoErr
    /\ pc = "done" /\ err = NoErr /\ uploadBundleFlag => Printed("Upload file key")
    /\ request.uploadURL # "" <=> (uploadBundleFlag /\ Ops("pre-down") # {})

C16_Witness ==
    /\ pc = "done"
    /\ ~uploadBundleFlag
    /\ resp.uploadFailureReason # ""
    /\ err.text = "upload failed"

\* C17: the session state is read once, before the first mutating call, and it
\* keeps the values the daemon had at session start: Status is the first call
\* and GetLogLevel the second, neither is issued again, every mutating call
\* comes after both succeeded, and from then on stateWasDown and
\* initialLogLevel equal the daemon's initial status class and level although
\* the daemon's own state changes. The restoring SetLogLevel carries the initial
\* level and is issued only when that level was below trace and was elevated; a
\* session that returns nil leaves the daemon at its initial log level.
C17_SessionStateCapturedOnce ==
    /\ Ops("Status") \subseteq {1}
    /\ Ops("GetLogLevel") \subseteq {2}
    /\ \A i \in 1..Len(trace) :
          trace[i].op \in Mutating => i > 2 /\ StatusFetched /\ LevelFetched
    /\ StatusFetched => stateWasDown = DaemonWasDown
    /\ LevelFetched => initialLogLevel = daemon0.level
    /\ Ops("Down") # {} => initialLevelTrace = (daemon0.level >= LogLevel_TRACE)
    /\ \A i \in Restorations :
          /\ trace[i].arg = daemon0.level
          /\ daemon0.level < LogLevel_TRACE
          /\ \E e \in Elevations : e < i /\ trace[e].ok /\ trace[e].arg = LogLevel_TRACE
    /\ pc = "done" /\ err = NoErr =>
          /\ dLogLevel = daemon0.level
          /\ Cardinality(Restorations) = Count(daemon0.level < LogLevel_TRACE)

C17_Witness ==
    /\ pc = "done"
    /\ err = NoErr
    /\ daemon0.level = LogLevel_DEBUG
    /\ dLogLevel = LogLevel_DEBUG
    /\ \E i \in Restorations : trace[i].ok /\ trace[i].arg = LogLevel_DEBUG

\* C18: every "Remaining time" line is printed at a tick at which the elapsed
\* time is still below the duration, and the remaining time it carries is the
\* duration minus that elapsed time: strictly positive, at most the duration,
\* and formatted with non-negative hours, minutes and seconds.
C18_RemainingInRange ==
    \A i \in 1..Len(progress) :
        /\ progress[i].elapsed >= 0
        /\ progress[i].elapsed < duration
        /\ progress[i].remaining = duration - progress[i].elapsed
        /\ progress[i].remaining > 0
        /\ progress[i].remaining <= duration
        /\ \A k \in 1..3 : progress[i].text[k] >= 0

C18_Witness ==
    /\ rExit = "duration"
    /\ Len(progress) >= 1
    /\ progress[Len(progress)].remaining < duration
    /\ progress[Len(progress)].text = <<0, 0, 1>>

\* C19: the reporter terminates and closes done exactly once. done is closed
\* exactly when the reporter has returned, the reporter returns because the
\* duration is exhausted or because the context is cancelled, after the close
\* it takes no further step (done stays closed and is not closed again), it is
\* still running after the parent returned only when the context is cancelled,
\* and with ticks arriving and the goroutine scheduled a started reporter always
\* returns, also after the parent has returned and stopped the ticker.
C19_ReporterTerminates ==
    /\ [](doneClosed <=> rpc = "exited")
    /\ [](rpc = "exited" <=> rExit \in {"duration", "cancel"})
    /\ [](rpc # "exited" <=> rExit = "none")
    /\ [](rExit = "cancel" => ctxDone)
    /\ [](rExit = "duration" => now - startTime >= duration /\ rTick >= 0)
    /\ [](ppc = "returned" /\ rpc # "exited" => ctxDone /\ waitResult = "cancelled")
    /\ [][doneClosed => doneClosed' /\ rpc' = "exited" /\ rExit' = rExit]_vars
    /\ (rpc # "idle") ~> (rpc = "exited")

C19_Witness ==
    /\ ppc = "returned"
    /\ waitResult = "cancelled"
    /\ tickerStopped
    /\ rpc = "exited"
    /\ rExit = "cancel"
    /\ doneClosed

\* C20: the session never asks the daemon to disable network map persistence.
\* Every SetNetworkMapPersistence call carries Enabled = true; once one has
\* succeeded persistence is enabled in every later state, the final state of a
\* fully successful session included; a persistence that was enabled before
\* the session stays enabled, and without a successful call it is unchanged.
C20_PersistenceNeverDisabled ==
    /\ \A p \in PersistIdx : trace[p].arg = 1
    /\ (\E p \in PersistIdx : trace[p].ok) => dPersist
    /\ (\A p \in PersistIdx : ~trace[p].ok) => dPersist = daemon0.persist
    /\ daemon0.persist => dPersist

C20_Witness ==
    /\ pc = "done"
    /\ err = NoErr
    /\ ~daemon0.persist
    /\ dPersist
    /\ DaemonWasDown /\ dStatus = daemon0.status
    /\ daemon0.level < LogLevel_TRACE /\ dLogLevel = daemon0.level

\* ------------------------------------------------------- specifications
\* Ticks keep arriving and both goroutines of the waiter are scheduled.
Fairness ==
    /\ WF_vars(AdvanceTime)
    /\ WF_vars(StartReporter)
    /\ WF_vars(ReporterSelect)
    /\ WF_vars(ReporterCancelled)
    /\ WF_vars(ReporterTick)
    /\ WF_vars(ParentSelect)
    /\ WF_vars(ParentWoken)

FairSpec == Spec /\ Fairness

====
